---- MODULE Spec2Model ----
(***************************************************************************)
(* A model of flamedisx/lxe_blocks/energy_spectrum.py: the energy-spectrum *)
(* blocks (fixed-shape, spatial-density and joint time-energy engines),    *)
(* their one-time setup, and the truth sampler with its fix_truth          *)
(* resolver.                                                               *)
(*                                                                         *)
(* Numbers.  Floating-point quantities are modelled exactly: divisions are *)
(* rationals [n, d] in lowest terms, so an averaging or a normalisation is *)
(* computed, not assumed.  Times are counted in ticks; the histogram's     *)
(* time axis is the tick count since J2000 (wr.j2000 is the shift by       *)
(* J2000Epoch).  Angles are counted in quarter turns, so that cos and sin  *)
(* are exact.  Random draws are nondeterministic choices from small        *)
(* sample sets.                                                            *)
(***************************************************************************)
EXTENDS Integers, Sequences, FiniteSets, TLC

VARIABLES
    cls,               \* class of the instance: "fixed", "spatial", "wimp"
    cfg,               \* the attributes the instance was configured with
    energies,          \* self.energies: [tensor, vals]
    polar,             \* self.polar: "unset", "True", "False"
    spatial_rate_pdf,  \* self.spatial_rate_pdf: <<>> (unset) or <<hist>>
    energy_hist,       \* self.energy_hist: <<>> (unset) or <<hist>>
    array_columns,     \* self.array_columns: width of 'energy_spectrum'
    phase,             \* "constructed", "ready", "failed"
    setup_error,       \* the assertion that ended setup, "" if none
    ret                \* the last call and what it returned

vars == <<cls, cfg, energies, polar, spatial_rate_pdf, energy_hist,
          array_columns, phase, setup_error, ret>>

\* ------------------------------------------------------------------ bounds

\* Largest n_events of a random_truth call.
MaxN == 2

\* ------------------------------------------------------------- arithmetic

Abs(i) == IF i < 0 THEN -i ELSE i

RECURSIVE GCD(_, _)
GCD(a, b) == IF b = 0 THEN a ELSE GCD(b, a % b)

\* The rational n/d (d # 0) in lowest terms with a positive denominator.
Rat(n, d) ==
    LET g == GCD(Abs(n), Abs(d))
        s == IF d < 0 THEN -1 ELSE 1
    IN  [n |-> (s * n) \div g, d |-> (s * d) \div g]

RInt(i) == [n |-> i, d |-> 1]
RAdd(p, q) == Rat(p.n * q.d + q.n * p.d, p.d * q.d)
RMul(p, q) == Rat(p.n * q.n, p.d * q.d)
RDiv(p, q) == Rat(p.n * q.d, p.d * q.n)
RLess(p, q) == p.n * q.d < q.n * p.d

RECURSIVE SumSeq(_)
SumSeq(s) == IF s = <<>> THEN 0 ELSE Head(s) + SumSeq(Tail(s))

RECURSIVE RSumSeq(_)
RSumSeq(s) == IF s = <<>> THEN RInt(0) ELSE RAdd(Head(s), RSumSeq(Tail(s)))

\* np.diff
Diff(x) == [i \in 1..(Len(x) - 1) |-> x[i + 1] - x[i]]

\* ------------------------------------------------------------ coordinates

\* cos and sin of an angle given in quarter turns.
Cos(theta) == CASE theta % 4 = 0 -> 1
                [] theta % 4 = 1 -> 0
                [] theta % 4 = 2 -> -1
                [] OTHER -> 0
Sin(theta) == Cos(theta + 3)

\* fd.pol_to_cart: (r, theta) -> (x, y) = (r cos theta, r sin theta)
pol_to_cart(r, theta) == <<r * Cos(theta), r * Sin(theta)>>

\* fd.cart_to_pol: (x, y) -> (sqrt(x^2 + y^2), arctan2(y, x)), on the points
\* of the coordinate axes, where the radius is |x| + |y| and the angle is a
\* whole number of quarter turns in (-2, 2].
cart_to_pol(x, y) ==
    <<Abs(x) + Abs(y),
      CASE y > 0 -> 1
        [] y < 0 -> -1
        [] x < 0 -> 2
        [] OTHER -> 0>>

\* --------------------------------------------------------------- mappings

EmptyMap == [k \in {} |-> 0]
Has(d, k) == k \in DOMAIN d
Put(d, k, v) == (k :> v) @@ d
Restrict(d, K) == [k \in K |-> d[k]]

\* ---------------------------------------------------------- configuration

\* EnergySpectrum.drift_velocity, in z units per tick.
drift_velocity == 2

\* The tick count of the J2000 instant on the event_time axis.
J2000Epoch == 100

\* wr.j2000 and fd.j2000_to_event_time: event_time <-> time since J2000.
j2000(t) == t - J2000Epoch
j2000_to_event_time(t) == t + J2000Epoch

\* EnergySpectrum.t_start, t_stop
t_start == 104
t_stop == 116

\* @staticmethod bin_centers
bin_centers(x) == [i \in 1..(Len(x) - 1) |-> (x[i + 1] + x[i]) \div 2]

\* ------------------------------------------------------- calls and results

\* What a call gives: the value it returns, as the one element of value,
\* or the exception that ends it, with no value.
Return(v) == [ok |-> TRUE, error |-> "", value |-> <<v>>]
Raise(e) == [ok |-> FALSE, error |-> e, value |-> <<>>]

Idle == [op |-> "idle", args |-> <<>>, ok |-> TRUE, error |-> "",
         value |-> <<>>]

\* The record of the last call: its arguments and its returned value are
\* kept under the name of the operation.
Called(op, args, out) ==
    [op |-> op, args |-> op :> args, ok |-> out.ok, error |-> out.error,
     value |-> IF out.ok THEN op :> out.value[1] ELSE <<>>]

\* ------------------------------------------------------ validate_fix_truth

\* A Python value passed as fix_truth: its type, and for a dict its items,
\* for a DataFrame the columns of its first row.
PyNone == [type |-> "NoneType", d |-> EmptyMap]
PyDict(d) == [type |-> "dict", d |-> d]
PyDataFrame(d) == [type |-> "DataFrame", d |-> d]
PyStr == [type |-> "str", d |-> EmptyMap]

\* The columns validate_fix_truth selects from a DataFrame.
cols == {"x", "y", "z", "r", "theta", "event_time", "drift_time"}

\* The 'z' in d branch without its raise: a lone z is accepted.
validate_position_no_raise(d) ==
    LET e == IF Has(d, "x") /\ Has(d, "y")
             THEN LET p == cart_to_pol(d["x"], d["y"])
                  IN  Put(Put(d, "r", p[1]), "theta", p[2])
             ELSE IF Has(d, "r") /\ Has(d, "theta")
             THEN LET p == pol_to_cart(d["r"], d["theta"])
                  IN  Put(Put(d, "x", p[1]), "y", p[2])
             ELSE d
    IN  Return(Put(e, "drift_time", (-e["z"]) \div drift_velocity))

\* The 'z' in d branch: position is fixed; both coordinate systems are
\* made available and drift_time is computed from z.
validate_position(d) ==
    IF Has(d, "x") /\ Has(d, "y")
    THEN LET p == cart_to_pol(d["x"], d["y"])
             e == Put(Put(d, "r", p[1]), "theta", p[2])
         IN  Return(Put(e, "drift_time", (-e["z"]) \div drift_velocity))
    ELSE IF Has(d, "r") /\ Has(d, "theta")
    THEN LET p == pol_to_cart(d["r"], d["theta"])
             e == Put(Put(d, "x", p[1]), "y", p[2])
         IN  Return(Put(e, "drift_time", (-e["z"]) \div drift_velocity))
    ELSE Raise("ValueError")

validate_fix_truth(a) ==
    IF a.type = "NoneType" THEN Return(EmptyMap)
    ELSE IF a.type = "DataFrame"
    THEN IF cols \subseteq DOMAIN a.d
         THEN Return(Restrict(a.d, cols))
         ELSE Raise("KeyError")
    ELSE IF a.type # "dict" THEN Raise("AssertionError")
    ELSE IF Has(a.d, "z") THEN validate_position(a.d)
    ELSE IF ~Has(a.d, "event_time") /\ ~Has(a.d, "energy")
    THEN Raise("ValueError")
    ELSE Return(a.d)

\* The fix_truth values the calls are made with.  Times: one tick before
\* the first time edge, the first edge, the last edge.  Energies: a negative
\* one, and one that lies inside one of the energy ranges used here and
\* below the other.
FixTimes == {t_start - 1, t_start, t_stop}
FixEnergies == {-1, 1}
FixFields == {"x", "y", "z", "r", "theta", "event_time", "energy"}
FullFix ==
    { [x |-> 1, y |-> 0, z |-> -4, r |-> 1, theta |-> 1,
       event_time |-> t, energy |-> e] : t \in FixTimes, e \in FixEnergies }
FixDicts == { Restrict(f, K) : f \in FullFix, K \in SUBSET FixFields }

\* Observed events passed as a one-line DataFrame: a complete one, one
\* with an energy column besides, one without its drift_time column.
ObservedEvent ==
    [x |-> 0, y |-> 1, z |-> -4, r |-> 1, theta |-> 1,
     event_time |-> t_start, drift_time |-> 2]
FixFrames ==
    { ObservedEvent, Put(ObservedEvent, "energy", 1),
      Restrict(ObservedEvent, cols \ {"drift_time"}) }

FixInputs ==
    {PyNone, PyStr} \cup { PyDict(d) : d \in FixDicts }
        \cup { PyDataFrame(d) : d \in FixFrames }

\* ------------------------------------------------- the configured instance

\* self.energies with self.rates_vs_energy, as configured: the default-like
\* pair, a spectrum with an empty point, a grid reaching below zero, a grid
\* left as a plain array, and a spectrum of another length than the grid.
SpectrumChoices ==
    { [energies |-> [tensor |-> TRUE, vals |-> <<0, 1>>], rates |-> <<1, 1>>],
      [energies |-> [tensor |-> TRUE, vals |-> <<0, 1>>], rates |-> <<0, 2>>],
      [energies |-> [tensor |-> TRUE, vals |-> <<-1, 1>>], rates |-> <<1, 1>>],
      [energies |-> [tensor |-> FALSE, vals |-> <<0, 1>>], rates |-> <<1, 1>>],
      [energies |-> [tensor |-> TRUE, vals |-> <<0, 1>>],
       rates |-> <<1, 1, 1>>] }
DefaultSpectrum ==
    [energies |-> [tensor |-> TRUE, vals |-> <<0, 1>>], rates |-> <<1, 1>>]

\* A spatial histogram of two bins, flattened: its axis names, one sample
\* point inside each bin (in the order of the axes) and the bin contents.
\* The two bins hold the same two places under either convention.
AxisChoices == { <<"x", "y", "z">>, <<"r", "theta", "z">>, <<"z", "y", "x">> }
BinPoints(axes) ==
    IF axes = <<"r", "theta", "z">>
    THEN << <<1, 0, -2>>, <<1, 1, -4>> >>
    ELSE IF axes = <<"x", "y", "z">>
    THEN << <<1, 0, -2>>, <<0, 1, -4>> >>
    ELSE << <<-2, 0, 1>>, <<-4, 1, 0>> >>
Histdd(axes, E) ==
    [kind |-> "Histdd", axis_names |-> axes, points |-> BinPoints(axes),
     histogram |-> E]

\* Events per bin E with bin volumes bv: mean(E / bv) is 1 for the first
\* four, 2 for the fifth and exactly 0.9999 for the last.
CountChoices ==
    { [E |-> <<1, 1>>, bv |-> <<1, 1>>],
      [E |-> <<1, 3>>, bv |-> <<1, 3>>],
      [E |-> <<3, 1>>, bv |-> <<2, 2>>],
      [E |-> <<0, 2>>, bv |-> <<1, 1>>],
      [E |-> <<2, 2>>, bv |-> <<1, 1>>],
      [E |-> <<9999, 9999>>, bv |-> <<10000, 10000>>] }

\* The attributes of a spatial-density instance: the histogram and the bin
\* volumes, each <<>> when the attribute was never set.
SpatialChoices ==
    { [spatial_rate_hist |-> <<Histdd(a, c.E)>>,
       spatial_rate_bin_volumes |-> <<[kind |-> "ndarray", vals |-> c.bv]>>]
        : a \in AxisChoices, c \in CountChoices }
    \cup
    { [spatial_rate_hist |-> <<>>,
       spatial_rate_bin_volumes |->
           <<[kind |-> "ndarray", vals |-> <<1, 1>>]>>],
      [spatial_rate_hist |-> <<Histdd(<<"x", "y", "z">>, <<1, 1>>)>>,
       spatial_rate_bin_volumes |-> <<[kind |-> "list", vals |-> <<1, 1>>]>>] }
NoSpatial == [spatial_rate_hist |-> <<>>, spatial_rate_bin_volumes |-> <<>>]

\* wr.rate_wimp_std(t, es, ...): the rate the external model gives at time
\* t (since J2000) and energy e.  "flat" does not vary, "modulated" is
\* higher in the first part of the year, "threshold" vanishes at low energy.
RateModels == {"flat", "modulated", "threshold"}
rate_wimp_std(m, t, e) ==
    CASE m = "flat" -> 1
      [] m = "modulated" -> IF t < j2000(t_start) + 5 THEN 2 ELSE 1
      [] OTHER -> IF e < 4 THEN 0 ELSE IF t < j2000(t_start) + 5 THEN 2 ELSE 1

\* The attributes of a joint time-energy instance.
NTimeBinsChoices == {2, 3}
EnergyEdgesChoices == { <<0, 2, 6>>, <<2, 4, 8>> }
WimpChoices ==
    { [pretend_wimps_dont_modulate |-> p, n_time_bins |-> n,
       energy_edges |-> e, rate_model |-> m]
        : p \in BOOLEAN, n \in NTimeBinsChoices, e \in EnergyEdgesChoices,
          m \in RateModels }
NoWimp ==
    [pretend_wimps_dont_modulate |-> FALSE, n_time_bins |-> 2,
     energy_edges |-> <<0, 2, 6>>, rate_model |-> "flat"]

Config(s, sp, w) ==
    [energies |-> s.energies, rates_vs_energy |-> s.rates,
     spatial_rate_hist |-> sp.spatial_rate_hist,
     spatial_rate_bin_volumes |-> sp.spatial_rate_bin_volumes,
     pretend_wimps_dont_modulate |-> w.pretend_wimps_dont_modulate,
     n_time_bins |-> w.n_time_bins, energy_edges |-> w.energy_edges,
     rate_model |-> w.rate_model]

\* The instance as constructed, before setup: the class attributes hold
\* the configuration and nothing setup derives exists yet.
Init ==
    /\ \/ /\ cls = "fixed"
          /\ \E s \in SpectrumChoices : cfg = Config(s, NoSpatial, NoWimp)
       \/ /\ cls = "spatial"
          /\ \E sp \in SpatialChoices : cfg = Config(DefaultSpectrum, sp, NoWimp)
       \/ /\ cls = "wimp"
          /\ \E w \in WimpChoices : cfg = Config(DefaultSpectrum, NoSpatial, w)
    /\ energies = cfg.energies
    /\ polar = "unset"
    /\ spatial_rate_pdf = <<>>
    /\ energy_hist = <<>>
    /\ array_columns = Len(cfg.energy_edges) - 1
    /\ phase = "constructed"
    /\ setup_error = ""
    /\ ret = Idle

\* ------------------------------------------ SpatialRateEnergySpectrum.setup

\* R_norm = (E / bv) * (bv.sum() / E.sum()), elementwise
R_norm(E, bv) ==
    [i \in 1..Len(E) |->
        RMul(Rat(E[i], bv[i]), Rat(SumSeq(bv), SumSeq(E)))]

\* np.mean(E / bv)
mean_E_over_bv(E, bv) ==
    RDiv(RSumSeq([i \in 1..Len(E) |-> Rat(E[i], bv[i])]), RInt(Len(E)))

\* 0.9999 < np.mean(E / bv) < 1.0001
normalized(E, bv) ==
    /\ RLess(Rat(9999, 10000), mean_E_over_bv(E, bv))
    /\ RLess(mean_E_over_bv(E, bv), Rat(10001, 10000))

\* similar_blank_hist() with its histogram set to R_norm
density_hist(h, bv) ==
    [kind |-> "Histdd", axis_names |-> h.axis_names, points |-> h.points,
     histogram |-> R_norm(h.histogram, bv)]

\* What setup leaves on the instance, statement by statement: the
\* attributes stored before an assertion fails stay stored.
spatial_setup(c) ==
    LET unset == [polar |-> "unset", spatial_rate_pdf |-> <<>>]
    IN
    IF c.spatial_rate_hist = <<>> \/ c.spatial_rate_bin_volumes = <<>>
    THEN unset @@ [error |-> "missing"]
    ELSE IF c.spatial_rate_hist[1].kind # "Histdd"
            \/ c.spatial_rate_bin_volumes[1].kind # "ndarray"
    THEN unset @@ [error |-> "kind"]
    ELSE
    LET h == c.spatial_rate_hist[1]
        bv == c.spatial_rate_bin_volumes[1].vals
        axes == h.axis_names
        is_polar == (axes = <<"r", "theta", "z">>)
    IN
    IF ~is_polar /\ axes # <<"x", "y", "z">>
    THEN [polar |-> "False", spatial_rate_pdf |-> <<>>, error |-> "axes"]
    ELSE IF ~normalized(h.histogram, bv)
    THEN [polar |-> IF is_polar THEN "True" ELSE "False",
          spatial_rate_pdf |-> <<density_hist(h, bv)>>,
          error |-> "normalization"]
    ELSE [polar |-> IF is_polar THEN "True" ELSE "False",
          spatial_rate_pdf |-> <<density_hist(h, bv)>>,
          error |-> ""]

\* ------------------------------------------------- WIMPEnergySpectrum.setup

\* np.linspace(a, b, k + 1)
linspace(a, b, k) == [i \in 1..(k + 1) |-> a + ((i - 1) * (b - a)) \div k]

\* The time edges of the histogram.
time_edges(c) == linspace(j2000(t_start), j2000(t_stop), c.n_time_bins)

\* spectra[t][e] = rate_wimp_std(t, e_centers) * np.diff(energy_edges)
spectra(c) ==
    LET e_centers == bin_centers(c.energy_edges)
        time_centers == bin_centers(time_edges(c))
        widths == Diff(c.energy_edges)
    IN  [i \in 1..Len(time_centers) |->
            [j \in 1..Len(e_centers) |->
                RInt(rate_wimp_std(c.rate_model, time_centers[i],
                                   e_centers[j]) * widths[j])]]

\* Histdd.sum(axis=0).histogram: the sum over the time bins, per energy bin
sum_axis0(H) ==
    [j \in 1..Len(H[1]) |-> RSumSeq([i \in 1..Len(H) |-> H[i][j]])]

\* Histdd.n: the sum of all bin contents
hist_n(H) == RSumSeq([i \in 1..Len(H) |-> RSumSeq(H[i])])

\* The averaging with the sum over time divided by one more than the
\* number of time bins.
modulation_average_off_by_one(H, n_time_bins) ==
    [i \in 1..Len(H) |->
        [j \in 1..Len(H[1]) |-> RDiv(sum_axis0(H)[j], RInt(n_time_bins + 1))]]

\* np.ones_like(histogram) * sum(axis=0).histogram.reshape(1, -1)
\*     / n_time_bins
modulation_average(H, n_time_bins) ==
    [i \in 1..Len(H) |->
        [j \in 1..Len(H[1]) |-> RDiv(sum_axis0(H)[j], RInt(n_time_bins))]]

\* The histogram setup builds for the configuration c, with the
\* modulation switch at pretend.
build_energy_hist(c, pretend) ==
    [bin_edges |-> <<time_edges(c), c.energy_edges>>,
     histogram |-> IF pretend
                   THEN modulation_average(spectra(c), c.n_time_bins)
                   ELSE spectra(c)]

\* mu_before_efficiencies of the joint engine: energy_hist.n / n_time_bins
wimp_mu(h, n_time_bins) == RDiv(hist_n(h.histogram), RInt(n_time_bins))

\* mu_before_efficiencies of the fixed-shape engines: sum(rates_vs_energy)
fixed_mu(rates) == SumSeq(rates)

\* ------------------------------------------------------------------- setup

\* setup(), run once on the constructed instance.  The fixed-shape class
\* defines none; the spatial and the joint engine run theirs.
Setup ==
    /\ phase = "constructed"
    /\ IF cls = "spatial"
       THEN LET s == spatial_setup(cfg)
            IN  /\ polar' = s.polar
                /\ spatial_rate_pdf' = s.spatial_rate_pdf
                /\ setup_error' = s.error
                /\ phase' = IF s.error = "" THEN "ready" ELSE "failed"
                /\ UNCHANGED <<energies, energy_hist, array_columns>>
       ELSE IF cls = "wimp"
       THEN /\ energies' = [tensor |-> TRUE,
                            vals |-> bin_centers(cfg.energy_edges)]
            /\ array_columns' = Len(cfg.energy_edges) - 1
            /\ energy_hist' =
                   <<build_energy_hist(cfg, cfg.pretend_wimps_dont_modulate)>>
            /\ phase' = "ready"
            /\ UNCHANGED <<polar, spatial_rate_pdf, setup_error>>
       ELSE /\ phase' = "ready"
            /\ UNCHANGED <<energies, polar, spatial_rate_pdf, energy_hist,
                           array_columns, setup_error>>
    /\ UNCHANGED <<cls, cfg, ret>>

\* The caller drops the value a call returned.
Discard ==
    /\ ret.op # "idle"
    /\ ret' = Idle
    /\ UNCHANGED <<cls, cfg, energies, polar, spatial_rate_pdf, energy_hist,
                   array_columns, phase, setup_error>>

\* ---------------------------------------------------------------- sampling

\* Sample points of the uniform draws of the base draw_positions: radii in
\* [0, fv_radius), angles in [0, 2 pi), depths in [fv_low, fv_high).
RSamples == {1}
ThetaSamples == {0, 1}
ZSamples == {-2}

\* Sample points of draw_time: uniform between t_start and t_stop.
TimeSamples == {t_start, (t_start + t_stop) \div 2}

\* The point get_random returns inside the bin [lo, hi) it has chosen.
BinSample(lo, hi) == (lo + hi) \div 2

\* The rows a vectorised draw of n values can give: n draws from S.
Rows(n, S) == [1..n -> S]

\* EnergySpectrum.draw_positions, one event
base_positions ==
    { LET p == pol_to_cart(r, theta)
      IN  [r |-> r, theta |-> theta, z |-> z, x |-> p[1], y |-> p[2],
           drift_time |-> (-z) \div drift_velocity]
        : r \in RSamples, theta \in ThetaSamples, z \in ZSamples }

\* SpatialRateEnergySpectrum.draw_positions, one event: a position from
\* spatial_rate_hist.get_random, which chooses among the bins that hold
\* events, completed with the other coordinate pair and drift_time.
spatial_positions ==
    LET h == cfg.spatial_rate_hist[1]
    IN  { LET q == h.points[b]
              named == [k \in {h.axis_names[1], h.axis_names[2],
                               h.axis_names[3]} |->
                          IF k = h.axis_names[1] THEN q[1]
                          ELSE IF k = h.axis_names[2] THEN q[2] ELSE q[3]]
              full == IF polar = "True"
                      THEN LET p == pol_to_cart(named["r"], named["theta"])
                           IN  Put(Put(named, "x", p[1]), "y", p[2])
                      ELSE LET p == cart_to_pol(named["x"], named["y"])
                           IN  Put(Put(named, "r", p[1]), "theta", p[2])
          IN  Put(full, "drift_time", (-full["z"]) \div drift_velocity)
            : b \in { i \in 1..Len(h.histogram) : h.histogram[i] > 0 } }

\* self.draw_positions, by the class of the instance
draw_positions == IF cls = "spatial" THEN spatial_positions ELSE base_positions

\* source._overwrite_fixed_truths on one row: every key of fix_truth is
\* written over the row; None writes nothing.
overwrite_fixed_truths(row, fix_truth) ==
    IF fix_truth.type = "NoneType" THEN row ELSE fix_truth.d @@ row

\* np.random.choice(energies, p=spectrum / spectrum.sum()): the grid
\* points of non-zero probability
energy_choices ==
    { energies.vals[i] : i \in { k \in 1..Len(energies.vals) :
                                   cfg.rates_vs_energy[k] > 0 } }

\* EnergySpectrum.random_truth with the fixed values written before the
\* energies are drawn.
fixed_random_truth_overwrite_first(n_events, fix_truth) ==
    IF Len(cfg.rates_vs_energy) # Len(energies.vals)
    THEN {Raise("AssertionError")}
    ELSE { IF \E i \in 1..n_events : e[i] < 0
           THEN Raise("AssertionError")
           ELSE Return([i \in 1..n_events |->
                    [energy |-> e[i]] @@
                    overwrite_fixed_truths(
                        Put(pos[i], "event_time", t[i]), fix_truth)])
             : pos \in Rows(n_events, draw_positions),
               t \in Rows(n_events, TimeSamples),
               e \in Rows(n_events, energy_choices) }

\* EnergySpectrum.random_truth (fixed-shape and spatial engines): the
\* outcomes of one call.
fixed_random_truth(n_events, fix_truth) ==
    IF Len(cfg.rates_vs_energy) # Len(energies.vals)
    THEN {Raise("AssertionError")}
    ELSE { IF \E i \in 1..n_events : e[i] < 0
           THEN Raise("AssertionError")
           ELSE Return([i \in 1..n_events |->
                    overwrite_fixed_truths(
                        Put(Put(pos[i], "event_time", t[i]), "energy", e[i]),
                        fix_truth)])
             : pos \in Rows(n_events, draw_positions),
               t \in Rows(n_events, TimeSamples),
               e \in Rows(n_events, energy_choices) }

\* ------------------------------------------- the time-energy histogram

\* Histdd.get_axis_bin_index: the bin of value v on an axis with these
\* edges; the last edge belongs to the last bin.
bin_index(edges, v) ==
    IF v = edges[Len(edges)] THEN Len(edges) - 1
    ELSE CHOOSE i \in 1..(Len(edges) - 1) : edges[i] <= v /\ v < edges[i + 1]

\* energy_hist.slicesum(t, axis=0).histogram: the energy row at time t
slicesum_axis0(h, t) == h.histogram[bin_index(h.bin_edges[1], t)]

\* energy_hist.slicesum(e, axis=1).histogram: the time column at energy e
slicesum_axis1(h, e) ==
    [i \in 1..Len(h.histogram) |->
        h.histogram[i][bin_index(h.bin_edges[2], e)]]

\* get_random of a one-dimensional histogram: a point of a bin that has
\* weight; no bin has any when the set is empty.
get_random_1d(weights, edges) ==
    { BinSample(edges[i], edges[i + 1])
        : i \in { k \in 1..Len(weights) : weights[k].n > 0 } }

\* energy_hist.get_random: a (time, energy) point of a bin that has weight
get_random_2d(h) ==
    { <<BinSample(h.bin_edges[1][i], h.bin_edges[1][i + 1]),
        BinSample(h.bin_edges[2][j], h.bin_edges[2][j + 1])>>
        : <<i, j>> \in { c \in (1..Len(h.histogram))
                                \X (1..Len(h.histogram[1])) :
                             h.histogram[c[1]][c[2]].n > 0 } }

\* t_edges[0] <= t < t_edges[-1] with the last edge let in
time_in_bounds_closed(t_edges, t) ==
    t_edges[1] <= t /\ t <= t_edges[Len(t_edges)]

\* assert t_edges[0] <= t < t_edges[-1]
time_in_bounds(t_edges, t) ==
    t_edges[1] <= t /\ t < t_edges[Len(t_edges)]

\* assert e_edges[0] <= fix_truth['energy'] < e_edges[-1]
energy_in_bounds(e_edges, e) ==
    e_edges[1] <= e /\ e < e_edges[Len(e_edges)]

\* WIMPEnergySpectrum.random_truth: the outcomes of one call.
wimp_random_truth(n_events, fix_truth) ==
    LET h == energy_hist[1]
        d == fix_truth.d
    IN
    IF fix_truth.type = "NoneType"
    THEN {Raise("TypeError")}
    ELSE IF Has(d, "event_time")
    THEN LET t == j2000(d["event_time"])
         IN  IF ~time_in_bounds(h.bin_edges[1], t)
             THEN {Raise("AssertionError")}
             ELSE LET es == get_random_1d(slicesum_axis0(h, t),
                                          h.bin_edges[2])
                  IN  IF es = {} THEN {Raise("ValueError")}
                      ELSE { Return([i \in 1..n_events |->
                                 overwrite_fixed_truths(
                                     Put(pos[i], "energy", e[i]), fix_truth)])
                               : pos \in Rows(n_events, base_positions),
                                 e \in Rows(n_events, es) }
    ELSE IF Has(d, "energy")
    THEN IF ~energy_in_bounds(h.bin_edges[2], d["energy"])
         THEN {Raise("AssertionError")}
         ELSE LET ts == get_random_1d(slicesum_axis1(h, d["energy"]),
                                      h.bin_edges[1])
              IN  IF ts = {} THEN {Raise("ValueError")}
                  ELSE { Return([i \in 1..n_events |->
                             overwrite_fixed_truths(
                                 Put(pos[i], "event_time",
                                     j2000_to_event_time(t[i])), fix_truth)])
                           : pos \in Rows(n_events, base_positions),
                             t \in Rows(n_events, ts) }
    ELSE { Return([i \in 1..n_events |->
               overwrite_fixed_truths(
                   Put(Put(pos[i], "event_time",
                           j2000_to_event_time(te[i][1])),
                       "energy", te[i][2]), fix_truth)])
             : pos \in Rows(n_events, base_positions),
               te \in Rows(n_events, get_random_2d(h)) }

\* self.random_truth, by the class of the instance
random_truth(n_events, fix_truth) ==
    IF cls = "wimp" THEN wimp_random_truth(n_events, fix_truth)
    ELSE fixed_random_truth(n_events, fix_truth)

\* The fix_truth a random_truth call is made with: the default None, or a
\* mapping validate_fix_truth has accepted and resolved.
ResolvedFixTruths ==
    {PyNone} \cup { PyDict(validate_fix_truth(a).value[1])
                      : a \in { b \in FixInputs : validate_fix_truth(b).ok } }

\* ------------------------------------------------------------------- calls

CallFrame ==
    UNCHANGED <<cls, cfg, energies, polar, spatial_rate_pdf, energy_hist,
                array_columns, phase, setup_error>>

CanCall == phase = "ready" /\ ret.op = "idle"

\* validate_fix_truth(d)
ValidateFixTruth ==
    /\ CanCall
    /\ \E a \in FixInputs :
           ret' = Called("validate_fix_truth", a, validate_fix_truth(a))
    /\ CallFrame

\* random_truth with slicesum cutting self.energy_hist down to the slice
\* it returns, instead of returning a new histogram.
RandomTruthSlicingInPlace ==
    /\ CanCall
    /\ \E n_events \in 0..MaxN, fix_truth \in ResolvedFixTruths :
           \E out \in random_truth(n_events, fix_truth) :
               /\ ret' = Called("random_truth",
                             [n_events |-> n_events, fix_truth |-> fix_truth],
                             out)
               /\ energy_hist' =
                      IF cls = "wimp" /\ out.ok /\ Has(fix_truth.d, "event_time")
                      THEN <<[energy_hist[1] EXCEPT !.histogram =
                                 <<slicesum_axis0(energy_hist[1],
                                       j2000(fix_truth.d["event_time"]))>>]>>
                      ELSE energy_hist
    /\ UNCHANGED <<cls, cfg, energies, polar, spatial_rate_pdf,
                   array_columns, phase, setup_error>>

\* random_truth(n_events, fix_truth)
RandomTruth ==
    /\ CanCall
    /\ \E n_events \in 0..MaxN, fix_truth \in ResolvedFixTruths :
           \E out \in random_truth(n_events, fix_truth) :
               ret' = Called("random_truth",
                             [n_events |-> n_events, fix_truth |-> fix_truth],
                             out)
    /\ CallFrame

\* The batch sizes of the source and the events of a batch.
BatchSizes == {1, 2}
BatchEvents ==
    { Put(p, "event_time", t) : p \in draw_positions, t \in TimeSamples }

\* domain(data_tensor): the energy grid repeated batch_size times
Domain ==
    /\ CanCall
    /\ \E batch_size \in BatchSizes :
           ret' = Called("domain", batch_size,
                      IF energies.tensor
                      THEN Return([energy |->
                               [b \in 1..batch_size |-> energies.vals]])
                      ELSE Raise("AssertionError"))
    /\ CallFrame

\* SpatialRateEnergySpectrum.energy_spectrum_rate_multiplier(x, y, z):
\* the density at the position, looked up under the stored convention
spatial_rate_multiplier(x, y, z) ==
    LET h == spatial_rate_pdf[1]
        positions == IF polar = "True"
                     THEN cart_to_pol(x, y) \o <<z>>
                     ELSE <<x, y, z>>
    IN  h.histogram[CHOOSE b \in 1..Len(h.points) : h.points[b] = positions]

\* gimme('energy_spectrum_rate_multiplier'), one event
rate_multiplier(ev) ==
    IF cls = "spatial"
    THEN spatial_rate_multiplier(ev["x"], ev["y"], ev["z"])
    ELSE RInt(1)

\* WIMPEnergySpectrum.energy_spectrum(event_time): per event, the energy
\* row of the histogram at the event's time
energy_spectrum(event_time) ==
    [i \in 1..Len(event_time) |->
        slicesum_axis0(energy_hist[1], j2000(event_time[i]))]

\* _compute(data_tensor, ptensor, energy=...): FixedShapeEnergySpectrum
\* multiplies the repeated spectrum by the per-event multiplier,
\* VariableEnergySpectrum returns the per-event energy_spectrum.
compute(batch) ==
    IF cls = "wimp"
    THEN energy_spectrum([i \in 1..Len(batch) |-> batch[i]["event_time"]])
    ELSE [i \in 1..Len(batch) |->
             [j \in 1..Len(cfg.rates_vs_energy) |->
                 RMul(RInt(cfg.rates_vs_energy[j]), rate_multiplier(batch[i]))]]

Compute ==
    /\ CanCall
    /\ \E batch_size \in BatchSizes :
           \E batch \in Rows(batch_size, BatchEvents) :
               ret' = Called("_compute", batch, Return(compute(batch)))
    /\ CallFrame

\* energy_spectrum(event_time), called on the joint engine
EnergySpectrumCall ==
    /\ CanCall
    /\ cls = "wimp"
    /\ \E batch_size \in BatchSizes :
           \E event_time \in Rows(batch_size, TimeSamples) :
               ret' = Called("energy_spectrum", event_time,
                             Return(energy_spectrum(event_time)))
    /\ CallFrame

\* mu_before_efficiencies()
MuBeforeEfficiencies ==
    /\ CanCall
    /\ ret' = Called("mu_before_efficiencies", <<>>,
                  Return(IF cls = "wimp"
                         THEN wimp_mu(energy_hist[1], cfg.n_time_bins)
                         ELSE RInt(fixed_mu(cfg.rates_vs_energy))))
    /\ CallFrame

\* draw_positions(n_events)
DrawPositions ==
    /\ CanCall
    /\ \E n_events \in 0..MaxN :
           \E pos \in Rows(n_events, draw_positions) :
               ret' = Called("draw_positions", n_events, Return(pos))
    /\ CallFrame

\* draw_time(n_events)
DrawTime ==
    /\ CanCall
    /\ \E n_events \in 0..MaxN :
           \E t \in Rows(n_events, TimeSamples) :
               ret' = Called("draw_time", n_events, Return(t))
    /\ CallFrame

Next ==
    \/ Setup
    \/ Domain
    \/ Compute
    \/ EnergySpectrumCall
    \/ MuBeforeEfficiencies
    \/ DrawPositions
    \/ DrawTime
    \/ ValidateFixTruth
    \/ RandomTruth
    \/ Discard

Spec == Init /\ [][Next]_vars

\* ------------------------------------------------------------------ claims

Positional == {"x", "y", "z", "r", "theta"}

\* The argument and the returned value of the last call.
Args == ret.args[ret.op]
Result == ret.value[ret.op]

IsRandomTruth == ret.op = "random_truth"
IsValidate == ret.op = "validate_fix_truth"

\* C1: validate_fix_truth accepts or rejects by this rule: None yields an
\* empty mapping; a mapping containing 'z' is accepted exactly when it also
\* contains both 'x' and 'y' or both 'r' and 'theta'; a mapping without 'z'
\* and with neither 'event_time' nor 'energy' fails; a value that is not
\* None, a DataFrame or a mapping fails.
C1_ValidateRule ==
    IsValidate =>
        LET a == Args
        IN  /\ a.type = "NoneType" => ret.ok /\ DOMAIN Result = {}
            /\ a.type = "dict" /\ "z" \in DOMAIN a.d =>
                   (ret.ok <=> \/ {"x", "y"} \subseteq DOMAIN a.d
                               \/ {"r", "theta"} \subseteq DOMAIN a.d)
            /\ a.type = "dict"
                   /\ DOMAIN a.d \cap {"z", "event_time", "energy"} = {}
                   => ~ret.ok
            /\ a.type \notin {"NoneType", "DataFrame", "dict"} => ~ret.ok

\* A mapping holding z alone has been rejected.
C1_Witness ==
    /\ IsValidate
    /\ Args.type = "dict"
    /\ DOMAIN Args.d = {"z"}
    /\ ~ret.ok
    /\ ret.error = "ValueError"

\* C2: every row random_truth returns carries, for every field of the
\* resolved fix_truth mapping, exactly the fixed value.
C2_FixedFieldsKept ==
    IsRandomTruth /\ ret.ok /\ Args.fix_truth.type = "dict" =>
        \A i \in 1..Len(Result) :
            \A k \in DOMAIN Args.fix_truth.d :
                /\ k \in DOMAIN Result[i]
                /\ Result[i][k] = Args.fix_truth.d[k]

\* Two rows have been returned for a fix_truth that fixes the energy and a
\* position.
C2_Witness ==
    /\ IsRandomTruth
    /\ ret.ok
    /\ Len(Result) = 2
    /\ {"energy", "x", "y", "z"} \subseteq DOMAIN Args.fix_truth.d

\* C3: in every row random_truth returns, (x, y) and (r, theta) are the
\* same point.
C3_PairsConsistent ==
    IsRandomTruth /\ ret.ok =>
        \A i \in 1..Len(Result) :
            pol_to_cart(Result[i]["r"], Result[i]["theta"])
                = <<Result[i]["x"], Result[i]["y"]>>

\* C4: a mapping that contains any positional field is either rejected or
\* resolved to a mapping that contains all of x, y, z, r, theta.
C4_PositionComplete ==
    IsValidate /\ Args.type = "dict"
        /\ DOMAIN Args.d \cap Positional # {}
        => ~ret.ok \/ Positional \subseteq DOMAIN Result

\* The fixed event_time, or energy, of the call lies outside the half-open
\* range of the histogram's time, or energy, edges.
TimeOutOfRange ==
    /\ "event_time" \in DOMAIN Args.fix_truth.d
    /\ LET t == j2000(Args.fix_truth.d["event_time"])
           edges == energy_hist[1].bin_edges[1]
       IN  ~(edges[1] <= t /\ t < edges[Len(edges)])
EnergyOutOfRange ==
    /\ "energy" \in DOMAIN Args.fix_truth.d
    /\ LET e == Args.fix_truth.d["energy"]
           edges == energy_hist[1].bin_edges[2]
       IN  ~(edges[1] <= e /\ e < edges[Len(edges)])

\* C5 as stated: the joint engine's random_truth fails, returning no
\* records, whenever the fix_truth holds an event_time outside the time
\* range or an energy outside the energy range, whatever else it fixes.
C5_OutOfRangeFails ==
    IsRandomTruth /\ cls = "wimp" /\ (TimeOutOfRange \/ EnergyOutOfRange)
        => ~ret.ok /\ ret.value = <<>>

\* C5 as amended: the joint engine's random_truth fails, returning no
\* records, whenever the fix_truth holds an event_time outside the time
\* range, or holds no event_time and an energy outside the energy range.
C5_OutOfRangeFailsByPriority ==
    IsRandomTruth /\ cls = "wimp"
        /\ \/ TimeOutOfRange
           \/ /\ "event_time" \notin DOMAIN Args.fix_truth.d
              /\ EnergyOutOfRange
        => ~ret.ok /\ ret.value = <<>>

\* A call fixing only an energy below the first energy edge has failed, and
\* so has one fixing the event_time at the last time edge.
C5_Witness ==
    /\ IsRandomTruth
    /\ cls = "wimp"
    /\ ~ret.ok
    /\ ret.error = "AssertionError"
    /\ Args.n_events = 2
    /\ \/ DOMAIN Args.fix_truth.d = {"energy"} /\ EnergyOutOfRange
       \/ /\ TimeOutOfRange
          /\ Args.fix_truth.d["event_time"] = t_stop

\* C6: random_truth never returns a row with a negative energy.
C6_NoNegativeEnergy ==
    IsRandomTruth /\ ret.ok =>
        \A i \in 1..Len(Result) : Result[i]["energy"] >= 0

\* C7: the joint engine's expected count after setup equals the expected
\* count the same configuration gives with pretend_wimps_dont_modulate
\* switched the other way.
C7_ExpectedCountSame ==
    ret.op = "mu_before_efficiencies" /\ cls = "wimp" =>
        Result =
            wimp_mu(build_energy_hist(cfg, ~cfg.pretend_wimps_dont_modulate),
                    cfg.n_time_bins)

\* The expected count has been taken from a histogram averaged over three
\* time bins whose rows differed before the averaging.
C7_Witness ==
    /\ ret.op = "mu_before_efficiencies"
    /\ cls = "wimp"
    /\ cfg.pretend_wimps_dont_modulate
    /\ cfg.rate_model = "modulated"
    /\ cfg.n_time_bins = 3
    /\ build_energy_hist(cfg, FALSE) # energy_hist[1]

\* C8: a setup that fails on the normalization check leaves neither the
\* density field nor the polar flag stored on the instance.
C8_FailedSetupStoresNothing ==
    phase = "failed" /\ setup_error = "normalization" =>
        polar = "unset" /\ spatial_rate_pdf = <<>>

\* C9: once setup has completed, no call changes the energy grid, the rate
\* vector, the spatial count histogram, the density field or the
\* time-energy histogram.
C9_SetupStateFrozen ==
    [][phase = "ready" =>
          UNCHANGED <<energies, cfg, spatial_rate_pdf, energy_hist>>]_vars

\* random_truth has returned rows from the joint engine with the
\* event_time fixed, after setup.
C9_Witness ==
    /\ phase = "ready"
    /\ IsRandomTruth
    /\ cls = "wimp"
    /\ ret.ok
    /\ Len(Result) = 2
    /\ "event_time" \in DOMAIN Args.fix_truth.d

\* C10: the joint engine's random_truth called with fix_truth None returns
\* n_events rows, as with an empty mapping.
C10_NoneIsEmptyMapping ==
    IsRandomTruth /\ cls = "wimp" /\ Args.fix_truth.type = "NoneType"
        => ret.ok /\ Len(Result) = Args.n_events

====
